---------------------------- MODULE Spec2Model ----------------------------
(***************************************************************************)
(* A model of the browser chat client in                                   *)
(* src/serverless_chat_app/static/index.js: the message normalizer, the    *)
(* de-duplicating store (state.messages) with its rendered view, the       *)
(* WebSocket connection manager with its reconnect backoff, and the login  *)
(* and send handlers.                                                      *)
(***************************************************************************)
EXTENDS Integers, Sequences, FiniteSets, TLC

(***************************************************************************)
(* Bounds of the model.                                                    *)
(***************************************************************************)
\* consecutive connection failures explored before only a success is allowed
MaxFailures == 6
\* entries of a history result
MaxHistory == 3
\* entries of a batch frame
MaxBatch == 2
\* identifiers synthesized by normalizeMessage (Math.random() calls) over a run
MaxSynth == 2
\* ticks of the millisecond clock behind Date.now()
MaxClock == 1
\* submission requests in flight at once
MaxInFlight == 2

(***************************************************************************)
(* JavaScript values.  Every value is a record tagged by its type.         *)
(***************************************************************************)
Undef == [t |-> "undef"]
Null == [t |-> "null"]
NaN == [t |-> "nan"]
Num(n) == [t |-> "num", n |-> n]
Str(s) == [t |-> "str", s |-> s]
Obj(f) == [t |-> "obj", f |-> f]
Arr(a) == [t |-> "arr", a |-> a]

\* v.k and v?.k for a key k no string, number or array carries
Get(v, k) == IF v.t = "obj" /\ k \in DOMAIN v.f THEN v.f[k] ELSE Undef

\* a ?? b
Coalesce(a, b) == IF a.t \in {"undef", "null"} THEN b ELSE a

\* !v
Falsy(v) ==
    \/ v.t \in {"undef", "null", "nan"}
    \/ v.t = "num" /\ v.n = 0
    \/ v.t = "str" /\ v.s = ""

\* a || b
OrElse(a, b) == IF Falsy(a) THEN b ELSE a

\* the first of obj's keys, in order, whose value is neither null nor
\* undefined, else dflt:  obj.k1 ?? obj.k2 ?? ... ?? dflt
RECURSIVE FirstPresent(_, _, _)
FirstPresent(obj, keys, dflt) ==
    IF keys = << >> THEN dflt
    ELSE Coalesce(Get(obj, Head(keys)), FirstPresent(obj, Tail(keys), dflt))

\* the first of obj's keys, in order, whose value is truthy, else dflt:
\* obj.k1 || obj.k2 || ... || dflt
RECURSIVE FirstTruthy(_, _, _)
FirstTruthy(obj, keys, dflt) ==
    IF keys = << >> THEN dflt
    ELSE OrElse(Get(obj, Head(keys)), FirstTruthy(obj, Tail(keys), dflt))

\* new Date(v).getTime() for the values the model sends as createdAt
DateGetTime(v) == IF v.t = "num" THEN v ELSE NaN

(***************************************************************************)
(* normalizeMessage                                                        *)
(***************************************************************************)
NotAMessage == [t |-> "notamessage"]

IdKeys == <<"id", "messageId", "pk", "sk">>
AuthorKeys == <<"senderId", "userName", "username", "user", "author">>
BodyKeys == <<"content", "message", "text", "body">>

\* the template string `${who}-${when}-${random}`; rnd stands for the
\* Math.random() component
SynthId(who, when, rnd) == [t |-> "synth", who |-> who, when |-> when, rnd |-> rnd]

\* raw?.payload?.message ?? raw?.data?.message ?? raw?.message
\*   ?? raw?.payload ?? raw?.data ?? raw
Unwrap(raw) ==
    Coalesce(Get(Get(raw, "payload"), "message"),
    Coalesce(Get(Get(raw, "data"), "message"),
    Coalesce(Get(raw, "message"),
    Coalesce(Get(raw, "payload"),
    Coalesce(Get(raw, "data"), raw)))))

\* the fields probed on the string itself
Record_NoWrap(m) == m

\* the record the fields are probed on
Record(m) == IF m.t = "str" THEN Obj([message |-> m]) ELSE m

\* normalizeMessage without the typeof test of line 647
normalizeMessage_NoTypeTest(raw, clock, rnd) ==
    LET m == Unwrap(raw)
        obj == Record(m)
    IN  IF Falsy(m)
        THEN IF raw.t = "str"
             THEN [id |-> Undef, userName |-> Str("unknown"),
                   message |-> raw, timestamp |-> Num(clock)]
             ELSE NotAMessage
        ELSE [id |-> FirstPresent(obj, IdKeys,
                        SynthId(FirstTruthy(obj, <<"senderId", "userName", "username">>, Str("user")),
                                FirstTruthy(obj, <<"createdAt", "timestamp">>, Num(clock)),
                                rnd)),
              userName |-> FirstPresent(obj, AuthorKeys, Str("unknown")),
              message |-> FirstPresent(obj, BodyKeys, Str("")),
              timestamp |-> IF ~Falsy(Get(obj, "createdAt"))
                            THEN DateGetTime(Get(obj, "createdAt"))
                            ELSE Coalesce(Get(obj, "timestamp"), Num(clock))]

normalizeMessage(raw, clock, rnd) ==
    LET m == Unwrap(raw)
        obj == Record(m)
    IN  IF Falsy(m) \/ m.t \notin {"obj", "arr", "str"}
        THEN IF raw.t = "str"
             THEN [id |-> Undef, userName |-> Str("unknown"),
                   message |-> raw, timestamp |-> Num(clock)]
             ELSE NotAMessage
        ELSE [id |-> FirstPresent(obj, IdKeys,
                        SynthId(FirstTruthy(obj, <<"senderId", "userName", "username">>, Str("user")),
                                FirstTruthy(obj, <<"createdAt", "timestamp">>, Num(clock)),
                                rnd)),
              userName |-> FirstPresent(obj, AuthorKeys, Str("unknown")),
              message |-> FirstPresent(obj, BodyKeys, Str("")),
              timestamp |-> IF ~Falsy(Get(obj, "createdAt"))
                            THEN DateGetTime(Get(obj, "createdAt"))
                            ELSE Coalesce(Get(obj, "timestamp"), Num(clock))]

\* whether normalizeMessage draws a synthesized identifier for raw
Synthesizes(raw) ==
    LET n == normalizeMessage(raw, 0, 0)
    IN  n # NotAMessage /\ n.id.t = "synth"


(***************************************************************************)
(* The store (state.messages, a Map in insertion order) and renderMessage  *)
(***************************************************************************)
\* state.messages.has(id)
Has(store, id) == \E i \in DOMAIN store : store[i].id = id

\* the data-id attribute el() sets: none for undefined or null, else the
\* value as a string
DataId(id) ==
    IF id.t \in {"undef", "null"} THEN Undef
    ELSE IF id.t = "num" THEN Str(ToString(id.n))
    ELSE id

\* el() appends a child that is a string as a text node and any other child
\* with appendChild, which takes nodes only; children are flattened one level
IsTextChild(v) ==
    \/ v.t = "str"
    \/ v.t = "arr" /\ \A i \in DOMAIN v.a : v.a[i].t = "str"

\* building the message element raises a TypeError: toLowerCase/charCodeAt
\* on an author that is no string, appendChild on a body that is no string
RenderThrows(msg) == msg.userName.t # "str" \/ ~IsTextChild(msg.message)

\* the store without its entries with the identifier id
RECURSIVE Without(_, _)
Without(store, id) ==
    IF store = << >> THEN << >>
    ELSE IF Head(store).id = id THEN Without(Tail(store), id)
    ELSE <<Head(store)>> \o Without(Tail(store), id)

\* renderMessage that, for an identifier the store holds, deletes the entry
\* and stores the message anew at the end
renderMessage_MoveToEnd(store, dom, msg) ==
    IF msg = NotAMessage
    THEN [messages |-> store, view |-> dom, threw |-> FALSE, outcome |-> "nothing"]
    ELSE IF Has(store, msg.id)
    THEN [messages |-> Append(Without(store, msg.id), msg), view |-> dom,
          threw |-> FALSE, outcome |-> "duplicate"]
    ELSE IF RenderThrows(msg)
         THEN [messages |-> Append(store, msg), view |-> dom,
               threw |-> TRUE, outcome |-> "threw"]
         ELSE [messages |-> Append(store, msg), view |-> Append(dom, DataId(msg.id)),
               threw |-> FALSE, outcome |-> "added"]

\* renderMessage without the state.messages.has(msg.id) test of line 662
renderMessage_NoDedup(store, dom, msg) ==
    IF msg = NotAMessage
    THEN [messages |-> store, view |-> dom, threw |-> FALSE, outcome |-> "nothing"]
    ELSE IF RenderThrows(msg)
         THEN [messages |-> Append(store, msg), view |-> dom,
               threw |-> TRUE, outcome |-> "threw"]
         ELSE [messages |-> Append(store, msg), view |-> Append(dom, DataId(msg.id)),
               threw |-> FALSE, outcome |-> "added"]

\* renderMessage(msg) on a store and a view: the store and view after it and
\* whether it raised
renderMessage(store, dom, msg) ==
    IF msg = NotAMessage \/ Has(store, msg.id)
    THEN [messages |-> store, view |-> dom, threw |-> FALSE,
          outcome |-> IF msg = NotAMessage THEN "nothing" ELSE "duplicate"]
    ELSE IF RenderThrows(msg)
         THEN [messages |-> Append(store, msg), view |-> dom,
               threw |-> TRUE, outcome |-> "threw"]
         ELSE [messages |-> Append(store, msg), view |-> Append(dom, DataId(msg.id)),
               threw |-> FALSE, outcome |-> "added"]

\* msgs.forEach(renderMessage): in order, ending at the first call that raises
RECURSIVE RenderAll(_, _, _, _)
RenderAll(store, dom, msgs, prev) ==
    IF msgs = << >>
    THEN [messages |-> store, view |-> dom, threw |-> FALSE, outcome |-> prev]
    ELSE LET r == renderMessage(store, dom, Head(msgs))
         IN  IF r.threw THEN r
             ELSE RenderAll(r.messages, r.view, Tail(msgs), r.outcome)

\* raws.map(normalizeMessage).filter(Boolean); rnds[i] is the Math.random()
\* component drawn for entry i
RECURSIVE NormalizeAll(_, _, _)
NormalizeAll(raws, clock, rnds) ==
    IF raws = << >> THEN << >>
    ELSE LET n == normalizeMessage(Head(raws), clock, Head(rnds))
             rest == NormalizeAll(Tail(raws), clock, Tail(rnds))
         IN  IF n = NotAMessage THEN rest ELSE <<n>> \o rest

\* a.timestamp || 0, as the number the comparator subtracts
SortKey(msg) ==
    IF Falsy(msg.timestamp) \/ msg.timestamp.t # "num" THEN 0 ELSE msg.timestamp.n

\* x placed into the sorted s behind every entry whose key is not greater
RECURSIVE InsertByTimestamp(_, _)
InsertByTimestamp(s, x) ==
    IF s = << >> THEN <<x>>
    ELSE IF SortKey(Head(s)) - SortKey(x) > 0 THEN <<x>> \o s
    ELSE <<Head(s)>> \o InsertByTimestamp(Tail(s), x)

\* .sort((a, b) => (a.timestamp || 0) - (b.timestamp || 0)), a stable sort
RECURSIVE SortByTimestamp(_)
SortByTimestamp(s) ==
    IF s = << >> THEN << >>
    ELSE InsertByTimestamp(SortByTimestamp(SubSeq(s, 1, Len(s) - 1)), s[Len(s)])

\* renderInitialMessages(messages)
renderInitialMessages(store, dom, messages, clock, rnds, prev) ==
    IF messages.t # "arr"
    THEN [messages |-> store, view |-> dom, threw |-> FALSE, outcome |-> prev]
    ELSE RenderAll(store, dom,
                   SortByTimestamp(NormalizeAll(messages.a, clock, rnds)), prev)

(***************************************************************************)
(* What the servers send.  A deployment's wire shape is fixed for a run.   *)
(***************************************************************************)
\* records with the body under content
ContentShape == {
    Obj([id |-> Str("m1"), senderId |-> Str("alice"), content |-> Str("hi"), createdAt |-> Num(300)]),
    Obj([messageId |-> Str("m2"), senderId |-> Str("bob"), content |-> Str("yo"), createdAt |-> Num(100)]),
    Obj([pk |-> Str("m3"), senderId |-> Str("alice"), content |-> Str("ok"), timestamp |-> Num(200)]) }

\* records with the body under message
MessageShape == {
    Obj([id |-> Str("m1"), userName |-> Str("alice"), message |-> Str("hi"), timestamp |-> Num(300)]),
    Obj([id |-> Str("m2"), userName |-> Str("bob"), message |-> Str("yo"), timestamp |-> Num(100)]) }

\* records wrapped in an envelope, and one record with no identifier
EnvelopeShape == {
    Obj([payload |-> Obj([message |-> Obj([sk |-> Str("m1"), user |-> Str("alice"), text |-> Str("hi"), timestamp |-> Num(200)])])]),
    Obj([data |-> Obj([id |-> Str("m2"), author |-> Str("bob"), body |-> Str("yo"), timestamp |-> Num(200)])]),
    Obj([senderId |-> Str("bob"), content |-> Str("anon")]) }

\* payloads that are no record, or whose fields have the wrong type
MalformedShape == {
    Null, Num(42),
    Obj([id |-> Str("m1"), senderId |-> Num(42), content |-> Str("hi"), timestamp |-> Num(100)]),
    Obj([id |-> Str("m2"), senderId |-> Str("bob"), content |-> Str("yo"), timestamp |-> Num(200)]),
    Obj([id |-> Str("m3"), senderId |-> Str("bob"), content |-> Num(7), timestamp |-> Num(300)]) }

\* bare strings
StringShape == {Str("hi"), Str("")}

\* records without an identifier, body under content or message, and a string
ToleranceShape == {
    Obj([senderId |-> Str("a"), content |-> Str("hi"), createdAt |-> Num(300)]),
    Obj([userName |-> Str("a"), message |-> Str("hi"), timestamp |-> Num(300)]),
    Str("hi") }

\* records whose author is blank, null or absent
BlankShape == {
    Obj([id |-> Str("m1"), senderId |-> Str(""), content |-> Str("hi"), timestamp |-> Num(100)]),
    Obj([id |-> Str("m2"), senderId |-> Null, content |-> Str("yo"), timestamp |-> Num(200)]),
    Obj([id |-> Str("m3"), content |-> Str("ok"), timestamp |-> Num(300)]) }

\* a deployment with no message stored and none sent
SilentShape == {}

WireShapes == {SilentShape, ContentShape, MessageShape, EnvelopeShape,
               MalformedShape, StringShape, ToleranceShape, BlankShape}

\* a payload that is a record with a source identifier of its own
CarriesId(p) == p.t = "obj" /\ \E i \in DOMAIN IdKeys : IdKeys[i] \in DOMAIN p.f

\* the payloads with a source identifier among an array's entries
Identified(entries) ==
    IF entries.t # "arr" THEN {}
    ELSE {entries.a[i] : i \in {j \in DOMAIN entries.a : CarriesId(entries.a[j])}}

\* the sequences over S of length at most n
SeqsUpTo(S, n) == UNION {[1..k -> S] : k \in 0..n}

\* Math.random() is taken never to return the same value twice: its k-th
\* call returns k.  The draws of normalizing raws in order after k earlier
\* calls, one per entry; 0 for an entry that does not call Math.random()
RECURSIVE DrawsFrom(_, _)
DrawsFrom(raws, k) ==
    IF raws = << >> THEN << >>
    ELSE IF Synthesizes(Head(raws))
         THEN <<k + 1>> \o DrawsFrom(Tail(raws), k + 1)
         ELSE <<0>> \o DrawsFrom(Tail(raws), k)

\* the number of Math.random() calls normalizing raws makes
RECURSIVE NumDraws(_)
NumDraws(raws) ==
    IF raws = << >> THEN 0
    ELSE (IF Synthesizes(Head(raws)) THEN 1 ELSE 0) + NumDraws(Tail(raws))

\* whether normalizeMessage returns null for one of raws
Refuses(raws) == \E i \in DOMAIN raws : normalizeMessage(raws[i], 0, 0) = NotAMessage

\* the entries normalizeMessage is mapped over: an array's, else none
EntriesOf(entries) == IF entries.t = "arr" THEN entries.a ELSE << >>

(***************************************************************************)
(* Program constants                                                       *)
(***************************************************************************)
\* state.wsBackoffMs as constructed and as the open handler resets it
WsFloorMs == 500
\* state.wsMaxBackoffMs
WsMaxBackoffMs == 15000
\* Date.now() when the page is loaded
LoadTime == 1000

Min(a, b) == IF a < b THEN a ELSE b

RemoveAt(s, i) == SubSeq(s, 1, i - 1) \o SubSeq(s, i + 1, Len(s))

(***************************************************************************)
(* State                                                                   *)
(***************************************************************************)
VARIABLES
    username,        \* state.username
    token,           \* state.token
    wsUrl,           \* state.wsUrl
    ws,              \* state.ws: 0 for null, else the index in sockets of the socket held
    wsBackoffMs,     \* state.wsBackoffMs
    connected,       \* state.connected
    messages,        \* state.messages, in insertion order
    view,            \* the data-id of each child of #messagesContainer, in order
    sockets,         \* the readyState of every WebSocket created and not yet closed
    timers,          \* the delay of every pending setTimeout(connectWebSocket, delay)
    statusText,      \* the text of #statusText
    lastAlert,       \* the text of the last alert() shown
    chatShown,       \* the chat interface is shown and the login form hidden
    loginPc,         \* where handleLogin is suspended: idle, auth, history
    loginUser,       \* handleLogin's local username
    input,           \* the text of #messageInput
    sendBtnDisabled, \* #sendBtn.disabled
    requests,        \* the /addMessages requests in flight
    now,             \* Date.now()
    randoms,         \* the number of Math.random() calls made so far
    wire,            \* the payloads the deployment's servers send
    failures,        \* history: connection failures since the last open event
    everOpened,      \* history: some socket has had its open event
    tornDown,        \* history: the user has asked to leave the session
    accepted,        \* history: the bodies the submission service has accepted
    authReply,       \* history: the latest /login response
    arrived,         \* history: the payloads with a source identifier received so far
    refused,         \* history: normalizeMessage has returned null for a received entry
    lastRender       \* history: how the latest renderMessage call ended

vars == <<username, token, wsUrl, ws, wsBackoffMs, connected, messages, view,
          sockets, timers, statusText, lastAlert, chatShown, loginPc, loginUser,
          input, sendBtnDisabled, requests, now, randoms, wire, failures, everOpened,
          tornDown, accepted, authReply, arrived, refused, lastRender>>

sessionVars == <<username, token, wsUrl>>
storeVars == <<messages, view, randoms, arrived, refused, lastRender>>
connVars == <<ws, wsBackoffMs, connected, sockets, timers, failures, everOpened>>
loginVars == <<chatShown, loginPc, loginUser, authReply>>
sendVars == <<input, sendBtnDisabled, requests, accepted>>

\* no /login response yet
NoReply == [kind |-> "none"]

InitWith(shapes) ==
    /\ username = Null /\ token = Null /\ wsUrl = Null
    /\ ws = 0 /\ wsBackoffMs = WsFloorMs /\ connected = FALSE
    /\ messages = << >> /\ view = << >>
    /\ sockets = << >> /\ timers = << >>
    /\ statusText = "Disconnected" /\ lastAlert = ""
    /\ chatShown = FALSE /\ loginPc = "idle" /\ loginUser = ""
    /\ input = "" /\ sendBtnDisabled = FALSE /\ requests = << >>
    /\ now = LoadTime /\ randoms = 0
    /\ wire \in shapes
    /\ failures = 0 /\ everOpened = FALSE /\ tornDown = FALSE
    /\ accepted = {} /\ authReply = NoReply /\ arrived = {} /\ refused = FALSE
    /\ lastRender = "none"

Init == InitWith(WireShapes)

(***************************************************************************)
(* The WebSocket manager                                                   *)
(***************************************************************************)
\* the strings new URL() parses
ParseableUrls == {"wss://chat.example/live", "ftp://chat.example/live"}
\* of these, the ones new WebSocket() takes; it raises a SyntaxError on the rest
WebSocketUrls == {"wss://chat.example/live"}

UrlParses(u) == u.t = "str" /\ u.s \in ParseableUrls
WebSocketTakes(u) == u.t = "str" /\ u.s \in WebSocketUrls

\* Math.min(state.wsBackoffMs *= 2, state.wsMaxBackoffMs): the doubled value
\* is stored, the capped one is the delay
DoubledBackoff(backoff) == backoff * 2
\* the delay taken from the backoff as it was before the doubling
ReconnectDelay_BeforeDoubling(backoff) == Min(backoff, WsMaxBackoffMs)
ReconnectDelay(backoff) == Min(DoubledBackoff(backoff), WsMaxBackoffMs)

\* connectWebSocket() that answers a missing endpoint or credential like a
\* failed attempt, with a reconnect timer
connectWebSocket_RetryOnMissingConfig(pending, text) ==
    LET same == [ws |-> ws, sockets |-> sockets, wsBackoffMs |-> wsBackoffMs,
                 timers |-> pending, failures |-> failures,
                 statusText |-> text, threw |-> FALSE]
    IN  IF Falsy(wsUrl) \/ Falsy(token)
        THEN [same EXCEPT !.statusText = "Missing WebSocket URL",
                          !.timers = Append(pending, WsFloorMs)]
        ELSE IF ~UrlParses(wsUrl)
        THEN [same EXCEPT !.threw = TRUE]
        ELSE IF ~WebSocketTakes(wsUrl)
        THEN [same EXCEPT !.wsBackoffMs = DoubledBackoff(wsBackoffMs),
                          !.timers = Append(pending, ReconnectDelay(wsBackoffMs)),
                          !.failures = failures + 1]
        ELSE [same EXCEPT !.sockets = Append(sockets, "connecting"),
                          !.ws = Len(sockets) + 1]

\* connectWebSocket() with the timers `pending` outstanding: the fields it
\* leaves, and whether it raised (new URL() on a malformed state.wsUrl)
connectWebSocket(pending, text) ==
    LET same == [ws |-> ws, sockets |-> sockets, wsBackoffMs |-> wsBackoffMs,
                 timers |-> pending, failures |-> failures,
                 statusText |-> text, threw |-> FALSE]
    IN  IF Falsy(wsUrl) \/ Falsy(token)
        THEN [same EXCEPT !.statusText = "Missing WebSocket URL"]
        ELSE IF ~UrlParses(wsUrl)
        THEN [same EXCEPT !.threw = TRUE]
        ELSE IF ~WebSocketTakes(wsUrl)
        THEN [same EXCEPT !.wsBackoffMs = DoubledBackoff(wsBackoffMs),
                          !.timers = Append(pending, ReconnectDelay(wsBackoffMs)),
                          !.failures = failures + 1]
        ELSE [same EXCEPT !.sockets = Append(sockets, "connecting"),
                          !.ws = Len(sockets) + 1]

\* whether connectWebSocket() would count one more failure
ConnectFails == ~Falsy(wsUrl) /\ ~Falsy(token) /\ UrlParses(wsUrl) /\ ~WebSocketTakes(wsUrl)

ApplyConnect(r) ==
    /\ ws' = r.ws /\ sockets' = r.sockets /\ wsBackoffMs' = r.wsBackoffMs
    /\ timers' = r.timers /\ failures' = r.failures

\* a reconnect timer expires
TimerFires ==
    \E i \in DOMAIN timers :
        /\ ConnectFails => failures < MaxFailures
        /\ LET r == connectWebSocket(RemoveAt(timers, i), statusText)
           IN  /\ ApplyConnect(r)
               /\ statusText' = r.statusText
        /\ UNCHANGED <<sessionVars, storeVars, loginVars, sendVars, connected,
                       everOpened, lastAlert, now, wire, tornDown>>

\* the 'open' listener
SocketOpen ==
    \E i \in DOMAIN sockets :
        /\ sockets[i] = "connecting"
        /\ sockets' = [sockets EXCEPT ![i] = "open"]
        /\ connected' = TRUE
        /\ wsBackoffMs' = WsFloorMs
        /\ statusText' = "Connected"
        /\ failures' = 0
        /\ everOpened' = TRUE
        /\ UNCHANGED <<sessionVars, storeVars, loginVars, sendVars, ws, timers,
                       lastAlert, now, wire, tornDown>>

\* a 'close' listener that leaves state.connected as it is
OnClose_KeepsConnected(i) ==
    /\ failures < MaxFailures
    /\ sockets' = RemoveAt(sockets, i)
    /\ statusText' = "Reconnecting..."
    /\ ws' = 0
    /\ wsBackoffMs' = DoubledBackoff(wsBackoffMs)
    /\ timers' = Append(timers, ReconnectDelay(wsBackoffMs))
    /\ failures' = failures + 1
    /\ UNCHANGED <<sessionVars, storeVars, loginVars, sendVars, everOpened,
                   connected, lastAlert, now, wire, tornDown>>

\* a 'close' listener that gives up: no reconnect timer is set
OnClose_NoRetry(i) ==
    /\ failures < MaxFailures
    /\ sockets' = RemoveAt(sockets, i)
    /\ connected' = FALSE
    /\ statusText' = "Reconnecting..."
    /\ ws' = 0
    /\ wsBackoffMs' = DoubledBackoff(wsBackoffMs)
    /\ failures' = failures + 1
    /\ UNCHANGED <<sessionVars, storeVars, loginVars, sendVars, everOpened,
                   timers, lastAlert, now, wire, tornDown>>

\* the 'close' listener, run for socket i
OnClose(i) ==
    /\ failures < MaxFailures
    /\ sockets' = RemoveAt(sockets, i)
    /\ connected' = FALSE
    /\ statusText' = "Reconnecting..."
    /\ ws' = 0
    /\ wsBackoffMs' = DoubledBackoff(wsBackoffMs)
    /\ timers' = Append(timers, ReconnectDelay(wsBackoffMs))
    /\ failures' = failures + 1
    /\ UNCHANGED <<sessionVars, storeVars, loginVars, sendVars, everOpened,
                   lastAlert, now, wire, tornDown>>

\* a connection attempt fails: the socket closes without having opened
ConnectFailed ==
    \E i \in DOMAIN sockets : sockets[i] = "connecting" /\ OnClose(i)

\* an open channel is closed by the peer or the network
SocketClose ==
    \E i \in DOMAIN sockets : sockets[i] = "open" /\ OnClose(i)

\* an 'error' listener that schedules a reconnect of its own, next to the
\* one the 'close' listener schedules
SocketError_Reconnects ==
    \E i \in DOMAIN sockets :
        /\ failures < MaxFailures
        /\ wsBackoffMs' = DoubledBackoff(wsBackoffMs)
        /\ timers' = Append(timers, ReconnectDelay(wsBackoffMs))
        /\ failures' = failures + 1
        /\ UNCHANGED <<sessionVars, storeVars, loginVars, sendVars, everOpened,
                       ws, sockets, connected, statusText, lastAlert, now, wire,
                       tornDown>>

\* the 'error' listener: console.error only
SocketError ==
    \E i \in DOMAIN sockets : UNCHANGED vars

(***************************************************************************)
(* HTTP: fetch and postJSON                                                *)
(***************************************************************************)
\* a response body res.json() cannot parse
Unparseable == [t |-> "unparseable"]

\* fetch() rejected: no response
NetworkError == [kind |-> "neterr"]
\* a response with res.ok and the JSON value (or unparseable text) of its body
Response(ok, body) == [kind |-> "http", ok |-> ok, body |-> body]

\* postJSON: raises when fetch rejects or the response is not ok; else the
\* body's JSON value, {} when the body does not parse
postJSON(resp) ==
    IF resp.kind = "neterr" \/ ~resp.ok THEN [threw |-> TRUE, value |-> Undef]
    ELSE IF resp.body = Unparseable THEN [threw |-> FALSE, value |-> Obj(<< >>)]
    ELSE [threw |-> FALSE, value |-> resp.body]

(***************************************************************************)
(* handleLogin                                                             *)
(***************************************************************************)
LoginNames == {"", "alice"}
LoginPasswords == {"", "secret"}

AuthResponses == {
    NetworkError,
    Response(FALSE, Obj([error |-> Str("Invalid credentials")])),
    Response(TRUE, Obj([error |-> Str("Invalid credentials")])),
    Response(TRUE, Unparseable),
    Response(TRUE, Obj([token |-> Str("t0k3n"), wsUrl |-> Str("wss://chat.example/live")])),
    Response(TRUE, Obj([token |-> Str("t0k3n"), websocketUrl |-> Str("wss://chat.example/live")])),
    Response(TRUE, Obj([token |-> Str("t0k3n"), wsUrl |-> Str("ftp://chat.example/live")])),
    Response(TRUE, Obj([token |-> Str("t0k3n"), wsUrl |-> Str("chat.example")])),
    Response(TRUE, Obj([token |-> Str("t0k3n")])) }

\* the submit listener of #loginForm, up to the first await
SubmitLogin ==
    \E u \in LoginNames, p \in LoginPasswords :
        /\ ~chatShown
        /\ loginPc = "idle"
        /\ IF u = "" \/ p = ""
           THEN /\ lastAlert' = "Please enter username and password"
                /\ UNCHANGED <<loginPc, loginUser, statusText>>
           ELSE /\ loginPc' = "auth"
                /\ loginUser' = u
                /\ statusText' = "Signing in..."
                /\ UNCHANGED lastAlert
        /\ UNCHANGED <<sessionVars, storeVars, connVars, sendVars, chatShown,
                       authReply, now, wire, tornDown>>

\* handleLogin that opens the WebSocket before it fetches the history
AuthResponse_ConnectsBeforeHistory ==
    \E resp \in AuthResponses :
        /\ loginPc = "auth"
        /\ authReply' = resp
        /\ LET res == postJSON(resp)
           IN  IF ~res.threw /\ ~Falsy(Get(res.value, "token"))
               THEN /\ username' = Str(loginUser)
                    /\ token' = Get(res.value, "token")
                    /\ wsUrl' = OrElse(OrElse(Get(res.value, "wsUrl"),
                                              Get(res.value, "websocketUrl")), Null)
                    /\ chatShown' = TRUE
                    /\ statusText' = "Loading messages..."
                    /\ loginPc' = "history"
                    /\ sockets' = Append(sockets, "connecting")
                    /\ ws' = Len(sockets) + 1
                    /\ UNCHANGED lastAlert
               ELSE /\ lastAlert' = "Login failed"
                    /\ statusText' = "Login failed"
                    /\ loginPc' = "idle"
                    /\ UNCHANGED <<sessionVars, chatShown, sockets, ws>>
        /\ UNCHANGED <<storeVars, wsBackoffMs, connected, timers, failures, everOpened,
                       sendVars, loginUser, now, wire, tornDown>>

\* handleLogin that stores the user name before it tests res.token
AuthResponse_NameBeforeTokenTest ==
    \E resp \in AuthResponses :
        /\ loginPc = "auth"
        /\ authReply' = resp
        /\ username' = Str(loginUser)
        /\ LET res == postJSON(resp)
           IN  IF ~res.threw /\ ~Falsy(Get(res.value, "token"))
               THEN /\ token' = Get(res.value, "token")
                    /\ wsUrl' = OrElse(OrElse(Get(res.value, "wsUrl"),
                                              Get(res.value, "websocketUrl")), Null)
                    /\ chatShown' = TRUE
                    /\ statusText' = "Loading messages..."
                    /\ loginPc' = "history"
                    /\ UNCHANGED lastAlert
               ELSE /\ lastAlert' = "Login failed"
                    /\ statusText' = "Login failed"
                    /\ loginPc' = "idle"
                    /\ UNCHANGED <<token, wsUrl, chatShown>>
        /\ UNCHANGED <<storeVars, connVars, sendVars, loginUser, now, wire, tornDown>>

\* handleLogin resumes with the /login response, up to the history fetch
AuthResponse ==
    \E resp \in AuthResponses :
        /\ loginPc = "auth"
        /\ authReply' = resp
        /\ LET res == postJSON(resp)
           IN  IF ~res.threw /\ ~Falsy(Get(res.value, "token"))
               THEN /\ username' = Str(loginUser)
                    /\ token' = Get(res.value, "token")
                    /\ wsUrl' = OrElse(OrElse(Get(res.value, "wsUrl"),
                                              Get(res.value, "websocketUrl")), Null)
                    /\ chatShown' = TRUE
                    /\ statusText' = "Loading messages..."
                    /\ loginPc' = "history"
                    /\ UNCHANGED lastAlert
               ELSE /\ lastAlert' = "Login failed"
                    /\ statusText' = "Login failed"
                    /\ loginPc' = "idle"
                    /\ UNCHANGED <<sessionVars, chatShown>>
        /\ UNCHANGED <<storeVars, connVars, sendVars, loginUser, now, wire, tornDown>>

\* the /getStoredMessages responses the deployment can give
HistoryResponses ==
    {NetworkError,
     Response(FALSE, Obj([error |-> Str("Unauthorized")])),
     Response(TRUE, Unparseable),
     Response(TRUE, Null),
     Response(TRUE, Obj(<< >>)),
     Response(TRUE, Obj([messages |-> Str("none")]))}
    \cup {Response(TRUE, Obj([messages |-> Arr(b)])) : b \in SeqsUpTo(wire, MaxHistory)}

\* what handleLogin passes to renderInitialMessages: data.messages || [];
\* absent when the fetch or json() raised or the response was not ok
HistoryArgument(resp) ==
    IF resp.kind = "neterr" \/ ~resp.ok \/ resp.body \in {Unparseable, Null}
    THEN Undef
    ELSE OrElse(Get(resp.body, "messages"), Arr(<< >>))

\* handleLogin without the try/catch around the history fetch: a failure
\* of the fetch or of the rendering reaches the outer catch
HistoryResponse_FailureEndsLogin ==
    \E resp \in HistoryResponses :
        /\ loginPc = "history"
        /\ ConnectFails => failures < MaxFailures
        /\ randoms + NumDraws(EntriesOf(HistoryArgument(resp))) <= MaxSynth
        /\ randoms' = randoms + NumDraws(EntriesOf(HistoryArgument(resp)))
        /\ LET rnds == DrawsFrom(EntriesOf(HistoryArgument(resp)), randoms)
               h == renderInitialMessages(messages, view, HistoryArgument(resp),
                                          now, rnds, lastRender)
               c == connectWebSocket(timers, "Connecting...")
               failed == resp.kind = "neterr" \/ resp.body = Unparseable \/ h.threw
           IN  /\ messages' = h.messages
               /\ view' = h.view
               /\ lastRender' = h.outcome
               /\ arrived' = arrived \cup Identified(HistoryArgument(resp))
               /\ refused' = (refused \/ Refuses(EntriesOf(HistoryArgument(resp))))
               /\ IF failed
                  THEN UNCHANGED <<ws, sockets, wsBackoffMs, timers, failures>>
                  ELSE ApplyConnect(c)
               /\ statusText' = IF failed \/ c.threw THEN "Login failed" ELSE c.statusText
               /\ lastAlert' = IF failed \/ c.threw THEN "Login failed" ELSE lastAlert
        /\ loginPc' = "idle"
        /\ UNCHANGED <<sessionVars, sendVars, connected, everOpened, chatShown,
                       loginUser, authReply, now, wire, tornDown>>

\* handleLogin resumes with the history response: renders it, then connects
HistoryResponse ==
    \E resp \in HistoryResponses :
        /\ loginPc = "history"
        /\ ConnectFails => failures < MaxFailures
        /\ randoms + NumDraws(EntriesOf(HistoryArgument(resp))) <= MaxSynth
        /\ randoms' = randoms + NumDraws(EntriesOf(HistoryArgument(resp)))
        /\ LET rnds == DrawsFrom(EntriesOf(HistoryArgument(resp)), randoms)
               h == renderInitialMessages(messages, view, HistoryArgument(resp),
                                          now, rnds, lastRender)
               c == connectWebSocket(timers, "Connecting...")
           IN  /\ messages' = h.messages
               /\ view' = h.view
               /\ lastRender' = h.outcome
               /\ arrived' = arrived \cup Identified(HistoryArgument(resp))
               /\ refused' = (refused \/ Refuses(EntriesOf(HistoryArgument(resp))))
               /\ ApplyConnect(c)
               /\ statusText' = IF c.threw THEN "Login failed" ELSE c.statusText
               /\ lastAlert' = IF c.threw THEN "Login failed" ELSE lastAlert
        /\ loginPc' = "idle"
        /\ UNCHANGED <<sessionVars, sendVars, connected, everOpened, chatShown,
                       loginUser, authReply, now, wire, tornDown>>

(***************************************************************************)
(* The 'message' listener                                                  *)
(***************************************************************************)
\* a frame whose text is the JSON of v, and a frame whose text is s itself
JsonFrame(v) == [kind |-> "json", v |-> v]
TextFrame(s) == [kind |-> "text", s |-> s]

\* the entries of a frame's data, as an array: a batch's, else the data itself
FrameEntries(data) ==
    IF Get(data, "messages").t = "arr" THEN Get(data, "messages") ELSE Arr(<<data>>)

\* the frames the deployment can push: one payload, or a batch envelope
Frames ==
    {JsonFrame(p) : p \in wire}
    \cup {TextFrame(p.s) : p \in {q \in wire : q.t = "str"}}
    \cup {JsonFrame(Obj([messages |-> Arr(b)])) : b \in SeqsUpTo(wire, MaxBatch) \ {<< >>}}

\* data = ev.data; try { data = JSON.parse(ev.data) } catch { keep as string }
ParseFrame(frame) == IF frame.kind = "json" THEN frame.v ELSE Str(frame.s)

\* the listener's body on the parsed data
HandleFrame(store, dom, data, clock, rnds, prev) ==
    IF Get(data, "messages").t = "arr"
    THEN RenderAll(store, dom, NormalizeAll(Get(data, "messages").a, clock, rnds), prev)
    ELSE LET msg == normalizeMessage(data, clock, Head(rnds))
         IN  IF msg = NotAMessage
             THEN [messages |-> store, view |-> dom, threw |-> FALSE, outcome |-> prev]
             ELSE renderMessage(store, dom, msg)

SocketMessage ==
    \E i \in DOMAIN sockets :
    \E frame \in Frames :
        /\ sockets[i] = "open"
        /\ randoms + NumDraws(FrameEntries(ParseFrame(frame)).a) <= MaxSynth
        /\ randoms' = randoms + NumDraws(FrameEntries(ParseFrame(frame)).a)
        /\ LET rnds == DrawsFrom(FrameEntries(ParseFrame(frame)).a, randoms)
               r == HandleFrame(messages, view, ParseFrame(frame), now, rnds, lastRender)
           IN  /\ messages' = r.messages
               /\ view' = r.view
               /\ lastRender' = r.outcome
        /\ arrived' = arrived \cup Identified(FrameEntries(ParseFrame(frame)))
        /\ refused' = (refused \/ Refuses(FrameEntries(ParseFrame(frame)).a))
        /\ UNCHANGED <<sessionVars, connVars, loginVars, sendVars, statusText,
                       lastAlert, now, wire, tornDown>>

(***************************************************************************)
(* sendMessage                                                             *)
(***************************************************************************)
InputTexts == {"", "  ", " hello "}

\* String.prototype.trim on the texts the model types
Trim(text) ==
    CASE text = "  " -> ""
      [] text = " hello " -> "hello"
      [] OTHER -> text

SubmitResponses == {NetworkError, Response(FALSE, Null), Response(TRUE, Obj(<< >>))}

\* the user edits #messageInput
TypeText ==
    \E text \in InputTexts :
        /\ chatShown
        /\ input' = text
        /\ UNCHANGED <<sessionVars, storeVars, connVars, loginVars, sendBtnDisabled,
                       requests, accepted, statusText, lastAlert, now, wire, tornDown>>

\* sendMessage that tests the text as typed, not as trimmed
sendMessage_UntrimmedTest ==
    IF input = "" \/ Falsy(token)
    THEN UNCHANGED <<sendBtnDisabled, requests>>
    ELSE /\ sendBtnDisabled' = TRUE
         /\ requests' = Append(requests, [senderId |-> username,
                                          content |-> Str(Trim(input)),
                                          token |-> token])

\* sendMessage up to its await
sendMessage ==
    IF Trim(input) = "" \/ Falsy(token)
    THEN UNCHANGED <<sendBtnDisabled, requests>>
    ELSE /\ sendBtnDisabled' = TRUE
         /\ requests' = Append(requests, [senderId |-> username,
                                          content |-> Str(Trim(input)),
                                          token |-> token])

\* the click listener of #sendBtn; a disabled button receives no click
ClickSend ==
    /\ chatShown
    /\ ~sendBtnDisabled
    /\ Len(requests) < MaxInFlight
    /\ sendMessage
    /\ UNCHANGED <<sessionVars, storeVars, connVars, loginVars, input, accepted,
                   statusText, lastAlert, now, wire, tornDown>>

\* the keydown listener of #messageInput on Enter without Shift
PressEnter ==
    /\ chatShown
    /\ Len(requests) < MaxInFlight
    /\ sendMessage
    /\ UNCHANGED <<sessionVars, storeVars, connVars, loginVars, input, accepted,
                   statusText, lastAlert, now, wire, tornDown>>

\* sendMessage that renders what it sent once the request is accepted
SendResponse_LocalEcho ==
    \E i \in DOMAIN requests :
    \E resp \in SubmitResponses :
        /\ requests' = RemoveAt(requests, i)
        /\ IF postJSON(resp).threw
           THEN /\ lastAlert' = "Failed to send message. Please try again."
                /\ UNCHANGED <<input, accepted, messages, view, lastRender>>
           ELSE /\ input' = ""
                /\ accepted' = accepted \cup {requests[i].content}
                /\ LET r == renderMessage(messages, view,
                                          [id |-> Undef, userName |-> requests[i].senderId,
                                           message |-> requests[i].content,
                                           timestamp |-> Num(now)])
                   IN  /\ messages' = r.messages
                       /\ view' = r.view
                       /\ lastRender' = r.outcome
                /\ UNCHANGED lastAlert
        /\ sendBtnDisabled' = FALSE
        /\ UNCHANGED <<sessionVars, connVars, loginVars, statusText,
                       randoms, arrived, refused, now, wire, tornDown>>

\* sendMessage resumes with the /addMessages response
SendResponse ==
    \E i \in DOMAIN requests :
    \E resp \in SubmitResponses :
        /\ requests' = RemoveAt(requests, i)
        /\ IF postJSON(resp).threw
           THEN /\ lastAlert' = "Failed to send message. Please try again."
                /\ UNCHANGED <<input, accepted>>
           ELSE /\ input' = ""
                /\ accepted' = accepted \cup {requests[i].content}
                /\ UNCHANGED lastAlert
        /\ sendBtnDisabled' = FALSE
        /\ UNCHANGED <<sessionVars, storeVars, connVars, loginVars, statusText,
                       now, wire, tornDown>>

(***************************************************************************)
(* The environment                                                         *)
(***************************************************************************)
\* a millisecond passes
Tick ==
    /\ now < LoadTime + MaxClock
    /\ now' = now + 1
    /\ UNCHANGED <<sessionVars, storeVars, connVars, loginVars, sendVars,
                   statusText, lastAlert, wire, tornDown>>

\* The user wants to leave the session.  The script registers listeners for
\* the two tabs, the two forms, the send button and the message input only,
\* and exposes nothing outside its closure: no handler runs, and no field of
\* the program changes.
Teardown ==
    /\ ~Falsy(token)
    /\ ~tornDown
    /\ tornDown' = TRUE
    /\ UNCHANGED <<sessionVars, storeVars, connVars, loginVars, sendVars,
                   statusText, lastAlert, now, wire>>

Next ==
    \/ SubmitLogin
    \/ AuthResponse
    \/ HistoryResponse
    \/ TimerFires
    \/ SocketOpen
    \/ SocketMessage
    \/ ConnectFailed
    \/ SocketClose
    \/ SocketError
    \/ TypeText
    \/ ClickSend
    \/ PressEnter
    \/ SendResponse
    \/ Tick
    \/ Teardown

Spec == Init /\ [][Next]_vars

(***************************************************************************)
(* The program under narrower environments.  Every behaviour of each is a  *)
(* behaviour of Spec.                                                      *)
(***************************************************************************)
\* the user logs in and only watches: history and live frames of every
\* shape, over a channel that drops and is re-established
NextStore ==
    \/ SubmitLogin
    \/ AuthResponse
    \/ HistoryResponse
    \/ TimerFires
    \/ SocketOpen
    \/ SocketMessage
    \/ SocketClose

SpecStore == Init /\ [][NextStore]_vars

\* the same, against a deployment whose records carry the body under message
SpecMessageShape == InitWith({MessageShape}) /\ [][NextStore]_vars

\* the same, against a deployment that sends values that are no record and
\* records with fields of the wrong type
SpecMalformed == InitWith({MalformedShape}) /\ [][NextStore]_vars

\* the same, against a deployment whose records lack a usable author
SpecBlank == InitWith({BlankShape}) /\ [][NextStore]_vars

\* the same with the clock running, against the deployments whose messages
\* take their timestamp from Date.now()
NextClock ==
    \/ NextStore
    \/ Tick

SpecClock == InitWith({MessageShape, StringShape}) /\ [][NextClock]_vars

\* the same, against a deployment that sends the same text in three shapes
SpecTolerance == InitWith({ToleranceShape}) /\ [][NextClock]_vars

\* the connection manager and the login sequence: no live frame arrives and
\* the user sends nothing
NextConn ==
    \/ SubmitLogin
    \/ AuthResponse
    \/ HistoryResponse
    \/ TimerFires
    \/ SocketOpen
    \/ ConnectFailed
    \/ SocketClose
    \/ SocketError
    \/ Teardown

SpecConn == InitWith({SilentShape, ContentShape}) /\ [][NextConn]_vars

\* the same, where a timer that has been set does expire: setTimeout runs its
\* callback once the delay has passed
SpecReconnect ==
    /\ InitWith({SilentShape, ContentShape})
    /\ [][NextConn]_vars
    /\ WF_vars(TimerFires)

\* the user logs in, watches and sends, over a channel that fails, drops
\* and is re-established
NextChat ==
    \/ NextStore
    \/ ConnectFailed
    \/ TypeText
    \/ ClickSend
    \/ PressEnter
    \/ SendResponse

SpecChat == InitWith({ContentShape}) /\ [][NextChat]_vars

\* the user composes and sends while the channel stays up
NextSend ==
    \/ SubmitLogin
    \/ AuthResponse
    \/ HistoryResponse
    \/ SocketOpen
    \/ SocketMessage
    \/ TypeText
    \/ ClickSend
    \/ PressEnter
    \/ SendResponse

SpecSend == InitWith({MessageShape}) /\ [][NextSend]_vars

(***************************************************************************)
(* Properties                                                              *)
(***************************************************************************)
\* the identifier a payload carries at its own top level
SourceId(p) == FirstPresent(p, IdKeys, Undef)

\* the store entries made from payload p: those with the author and body
\* normalizeMessage reads from p, and with p's identifier when it keeps it
EntriesFor(p) ==
    LET n == normalizeMessage(p, 0, 0)
    IN  {i \in DOMAIN messages :
            /\ messages[i].userName = n.userName
            /\ messages[i].message = n.message
            /\ n.id.t = "synth" \/ messages[i].id = n.id}

\* the view elements of the store entries made from payload p
ElementsFor(p) ==
    {j \in DOMAIN view : \E i \in EntriesFor(p) : view[j] = DataId(messages[i].id)}

\* C1: every payload that carries a source identifier and has been received,
\* once or several times, through history or live frames, has exactly one
\* entry in the store and exactly one element in the view
C1_ExactlyOnceDelivery ==
    \A p \in arrived :
        /\ Cardinality(EntriesFor(p)) = 1
        /\ Cardinality(ElementsFor(p)) = 1

\* the normalized messages the deployment's payloads can give
Admissible ==
    {normalizeMessage(p, now, randoms + 1) : p \in wire} \ {NotAMessage}

\* C2: no two entries of the store share an identifier, and admitting a
\* message a second time leaves the store and the view exactly as the first
\* admission left them
C2_IdempotentAdmission ==
    /\ \A i, j \in DOMAIN messages : messages[i].id = messages[j].id => i = j
    /\ \A msg \in Admissible, other \in Admissible \cup {NotAMessage} :
          LET once == renderMessage(messages, view, msg)
              between == renderMessage(once.messages, once.view, other)
              twice == renderMessage(between.messages, between.view, msg)
          IN  /\ twice.messages = between.messages
              /\ twice.view = between.view
              /\ Cardinality({i \in DOMAIN twice.messages :
                                 twice.messages[i].id = msg.id}) = 1

\* a message whose identifier the store already held has been offered again
C2_Witness ==
    /\ lastRender = "duplicate"
    /\ messages # << >>

\* the delay claimed for the k-th consecutive connection failure
ClaimedDelay(k) ==
    CASE k = 1 -> 500
      [] k = 2 -> 1000
      [] k = 3 -> 2000
      [] k = 4 -> 4000
      [] k = 5 -> 8000
      [] OTHER -> 15000

\* C3: from a fresh connection manager, the reconnect delay scheduled by the
\* k-th consecutive connection failure is 500, 1000, 2000, 4000, 8000 ms
\* for k = 1..5 and 15000 ms for every k from 6 on
C3_BackoffGrowth ==
    [][(~everOpened' /\ failures' = failures + 1)
           => /\ Len(timers') >= 1
              /\ timers'[Len(timers')] = ClaimedDelay(failures')]_vars

\* C4: after a successful connection (the 'open' event), whatever the
\* number of failures before it, the reconnect delay scheduled by the very
\* next failure is the floor, 500 ms
C4_BackoffReset ==
    [][(everOpened /\ failures = 0 /\ failures' = 1)
           => /\ Len(timers') >= 1
              /\ timers'[Len(timers')] = WsFloorMs]_vars

\* C5: a reconnect timer that is pending once the session has been torn
\* down is cancelled: it does not fire, and no new WebSocket is created
C5_TeardownCancelsRetries ==
    [][(tornDown /\ timers # << >>)
           => /\ Len(timers') >= Len(timers)
              /\ Len(sockets') <= Len(sockets)]_vars

\* C6: when the session has been torn down while the history fetch of
\* the login was in flight, the completion of the fetch admits nothing to
\* the store
C6_StaleSessionDiscard ==
    [][(tornDown /\ loginPc = "history") => messages' = messages /\ view' = view]_vars

\* C7: the store and the view change only in a step that processes a
\* history result or an inbound live frame; a step of sendMessage, whether
\* the submission succeeds or fails, leaves both as they are
C7_NoLocalEcho ==
    [][/\ (messages' # messages \/ view' # view) => (HistoryResponse \/ SocketMessage)
       /\ (requests' # requests \/ accepted' # accepted)
              => (messages' = messages /\ view' = view)]_vars

\* a message has been sent and accepted by the service, and the store holds
\* no entry with its text
C7_Witness ==
    /\ Str("hello") \in accepted
    /\ requests = << >>
    /\ \A i \in DOMAIN messages : messages[i].message # Str("hello")

\* the batch carries a source identifier in every payload, all distinct
DistinctSourceIds(b) ==
    /\ \A i \in DOMAIN b : CarriesId(b[i])
    /\ \A i, j \in DOMAIN b : SourceId(b[i]) = SourceId(b[j]) => i = j

\* the timestamp and the body a payload carries
SourceTimestamp(p) == FirstPresent(p, <<"createdAt", "timestamp">>, Undef)
SourceBody(p) == FirstPresent(p, BodyKeys, Undef)

\* the place in the store of the entry with the body of payload p
PlaceOf(store, p) == CHOOSE k \in DOMAIN store : store[k].message = SourceBody(p)

\* the store holds one entry per payload of b, ascending by the payloads'
\* timestamps, payloads with equal timestamps in their order in b
InTimestampOrder(b, store) ==
    /\ Len(store) = Len(b)
    /\ \A i \in DOMAIN b : \E k \in DOMAIN store : store[k].message = SourceBody(b[i])
    /\ \A i, j \in DOMAIN b :
          (\/ SourceTimestamp(b[i]).n < SourceTimestamp(b[j]).n
           \/ SourceTimestamp(b[i]).n = SourceTimestamp(b[j]).n /\ i < j)
              => PlaceOf(store, b[i]) < PlaceOf(store, b[j])

\* C8: a batch of historical payloads with distinct identifiers, loaded into
\* the empty store, leaves the store iterating in ascending order of the
\* payloads' timestamps, equal timestamps in input order
C8_ChronologicalBulkLoad ==
    [][(loginPc = "history" /\ loginPc' = "idle" /\ messages = << >>)
           => \A b \in SeqsUpTo(wire, MaxHistory) :
                 (/\ DistinctSourceIds(b)
                  /\ randoms' = randoms + NumDraws(b)
                  /\ messages' = renderInitialMessages(<< >>, << >>, Arr(b), now,
                                     DrawsFrom(b, randoms), "none").messages)
                     => InTimestampOrder(b, messages')]_vars

\* the /login response was a rejection, a failure, or carried no token
LoginFailed ==
    /\ authReply # NoReply
    /\ \/ postJSON(authReply).threw
       \/ Falsy(Get(postJSON(authReply).value, "token"))

\* C9: after a /login response that is a rejection, a failure or carries no
\* token, the error is surfaced, state.username, state.token and state.wsUrl
\* are unset, no history fetch is pending, and connectWebSocket has not run:
\* no socket, no timer, no failure counted
C9_LoginFailureLeavesNoSession ==
    LoginFailed =>
        /\ username = Null /\ token = Null /\ wsUrl = Null
        /\ ~chatShown
        /\ loginPc # "history"
        /\ loginPc = "idle" => statusText = "Login failed"
        /\ sockets = << >> /\ timers = << >> /\ ws = 0 /\ failures = 0
        /\ messages = << >>

\* handleLogin has finished on a 200 response without a token
C9_Witness ==
    /\ authReply = Response(TRUE, Obj([error |-> Str("Invalid credentials")]))
    /\ loginPc = "idle"
    /\ lastAlert = "Login failed"

\* handleLogin has called connectWebSocket() without an endpoint
StartedWithoutConfig ==
    /\ chatShown
    /\ loginPc = "idle"
    /\ Falsy(wsUrl) \/ Falsy(token)

\* C10: once connectWebSocket has been started with state.wsUrl or
\* state.token missing, there is no WebSocket and no reconnect timer, then
\* and ever after, and the status reads 'Missing WebSocket URL'
C10_ConfigErrorFatal ==
    StartedWithoutConfig =>
        /\ sockets = << >> /\ timers = << >> /\ ws = 0
        /\ failures = 0 /\ ~connected /\ ~everOpened
        /\ statusText = "Missing WebSocket URL"

\* the session was established without an endpoint and the connection
\* manager has reported it
C10_Witness ==
    /\ StartedWithoutConfig
    /\ ~Falsy(token)
    /\ statusText = "Missing WebSocket URL"

\* the connection manager has been started with an endpoint new WebSocket()
\* takes and a credential, and holds no socket: the last attempt failed or
\* the channel was closed
ChannelDown ==
    /\ chatShown /\ loginPc = "idle"
    /\ WebSocketTakes(wsUrl) /\ ~Falsy(token)
    /\ sockets = << >>

\* a connection attempt is under way
Attempting == \E i \in DOMAIN sockets : sockets[i] = "connecting"

\* C11: with a valid endpoint and credential, whenever the channel is down,
\* after a failed attempt or the close of an open channel, however many
\* failures came before, a new connection attempt eventually occurs once
\* the timer fires, without any user action
C11_IndefiniteReconnect == ChannelDown ~> Attempting

\* a new attempt is under way after as many consecutive failures as the
\* model follows
C11_Witness ==
    /\ failures = MaxFailures
    /\ Attempting
    /\ timers = << >>

\* the request sendMessage is to issue in the current state
ClaimedRequest == [senderId |-> username, content |-> Str(Trim(input)), token |-> token]

\* the body is non-empty after trimming and a session exists
MaySend == Trim(input) # "" /\ ~Falsy(token)

\* C12: sendMessage issues the submission request if and only if the body
\* is non-empty after trimming and state.token is set: a request is issued
\* only then and carries state.username, the trimmed body and the token,
\* and then one can be issued whatever the state of the live channel
C12_SendGuard ==
    /\ [][Len(requests') > Len(requests)
             => /\ MaySend
                /\ requests' = Append(requests, ClaimedRequest)]_vars
    /\ [](chatShown /\ MaySend /\ Len(requests) < MaxInFlight
             => ENABLED (PressEnter /\ requests' = Append(requests, ClaimedRequest)))

\* a request has been issued while no channel was open
C12_Witness ==
    /\ requests # << >>
    /\ requests[Len(requests)] = [senderId |-> Str("alice"), content |-> Str("hello"),
                                  token |-> Str("t0k3n")]
    /\ ~connected
    /\ sendBtnDisabled

\* null, undefined and values that are neither an object nor a string
NoMessageInputs == {Null, Undef, Num(42), Num(0), NaN}

\* raws without the entries that are in NoMessageInputs
RECURSIVE WithoutNoMessageInputs(_)
WithoutNoMessageInputs(raws) ==
    IF raws = << >> THEN << >>
    ELSE IF Head(raws) \in NoMessageInputs THEN WithoutNoMessageInputs(Tail(raws))
    ELSE <<Head(raws)>> \o WithoutNoMessageInputs(Tail(raws))

\* C13: normalizeMessage returns null for null, undefined and every input
\* that is neither an object nor a string; in any reachable state, such an
\* input as a live frame leaves the store and the view as they are, and as
\* an entry of a history array or a live batch it adds nothing: the result
\* is that of the array without it
C13_NormalizerRejection ==
    /\ \A raw \in NoMessageInputs : normalizeMessage(raw, now, randoms + 1) = NotAMessage
    /\ \A raw \in NoMessageInputs :
          LET r == HandleFrame(messages, view, raw, now, <<randoms + 1>>, lastRender)
          IN  r.messages = messages /\ r.view = view /\ ~r.threw
    /\ \A b \in SeqsUpTo(wire \cup {Null, Num(42)}, MaxBatch) :
          LET rest == WithoutNoMessageInputs(b)
              all == HandleFrame(messages, view, Obj([messages |-> Arr(b)]), now,
                                 DrawsFrom(b, randoms), lastRender)
              kept == HandleFrame(messages, view, Obj([messages |-> Arr(rest)]), now,
                                  DrawsFrom(rest, randoms), lastRender)
              loaded == renderInitialMessages(messages, view, Arr(b), now,
                                              DrawsFrom(b, randoms), lastRender)
              loadedKept == renderInitialMessages(messages, view, Arr(rest), now,
                                                  DrawsFrom(rest, randoms), lastRender)
          IN  /\ all.messages = kept.messages /\ all.view = kept.view
              /\ loaded.messages = loadedKept.messages /\ loaded.view = loadedKept.view

\* null or 42 has been received, and the store holds entries with a body
\* and an author only
C13_Witness ==
    /\ refused
    /\ wire = MalformedShape
    /\ messages # << >>
    /\ \A i \in DOMAIN messages :
          messages[i] # NotAMessage /\ messages[i].message.t \in {"str", "num"}

\* the last entry of the store after the live frame p is handled now
AdmittedFrom(p) ==
    LET r == HandleFrame(messages, view, p, now, <<randoms + 1>>, lastRender)
    IN  r.messages[Len(r.messages)]

\* C14: {senderId, content, createdAt}, {userName, message, timestamp} and
\* the bare string each normalize to a message whose body is the text, and
\* received as a live frame each is admitted with that body; for the bare
\* string the author is 'unknown' and the timestamp is the time of receipt
C14_NormalizerTolerance ==
    \A p \in ToleranceShape :
        LET n == normalizeMessage(p, now, randoms + 1)
        IN  /\ n # NotAMessage
            /\ n.message = Str("hi")
            /\ p.t = "str" => n.userName = Str("unknown") /\ n.timestamp = Num(now)
            /\ AdmittedFrom(p) = n

\* the three shapes have been received, some after the clock has advanced,
\* and the store holds the text from the record with content and from a
\* payload normalized as a string
C14_Witness ==
    /\ wire = ToleranceShape
    /\ \E i \in DOMAIN messages :
          messages[i].message = Str("hi") /\ messages[i].userName = Str("a")
    /\ \E i \in DOMAIN messages :
          /\ messages[i].message = Str("hi")
          /\ messages[i].userName = Str("unknown")
          /\ messages[i].timestamp = Num(LoadTime + 1)

\* C15: whatever an inbound frame holds, the 'message' listener completes
\* without raising an error: no step that handles a live frame ends in an
\* exception, and what it adds to the store it adds to the view
C15_MalformedFramesHarmless ==
    [][(loginPc = "idle" /\ loginPc' = "idle" /\ messages' # messages)
           => /\ lastRender' # "threw"
              /\ Len(view') - Len(view) = Len(messages') - Len(messages)]_vars

\* connectWebSocket has not been called: no socket was created, no timer set
NeverConnected ==
    /\ sockets = << >> /\ timers = << >> /\ ws = 0
    /\ failures = 0 /\ ~connected /\ ~everOpened

\* C16: as long as the history fetch of a login has not completed, no
\* connection attempt has been made; the first attempt is made in the step
\* that completes the fetch, with a result or a failure, and so no live
\* frame changes the store before the history has been rendered
C16_HistoryPrecedesLive ==
    /\ []((loginPc # "idle" \/ ~chatShown) => NeverConnected)
    /\ [][(NeverConnected /\ ~NeverConnected') => (loginPc = "history" /\ loginPc' = "idle")]_vars
    /\ [][(messages' # messages /\ ~(loginPc = "history" /\ loginPc' = "idle"))
             => ~NeverConnected]_vars

\* the history was rendered, the channel opened after it, and a live frame
\* has added a message behind the historical ones
C16_Witness ==
    /\ chatShown /\ loginPc = "idle" /\ everOpened
    /\ wire = ContentShape
    /\ Len(messages) = 3
    /\ lastRender = "added"
    /\ messages[1].timestamp = Num(100) /\ messages[2].timestamp = Num(300)
    /\ messages[3].timestamp = Num(200)

\* the store and the view after single frames carrying raws[1], raws[2], ...
\* are handled in that order, rnds[i] being the draw for entry i
RECURSIVE SinglesFrom(_, _, _, _)
SinglesFrom(store, dom, raws, rnds) ==
    IF raws = << >> THEN [messages |-> store, view |-> dom]
    ELSE LET r == HandleFrame(store, dom, Head(raws), now, <<Head(rnds)>>, "none")
         IN  SinglesFrom(r.messages, r.view, Tail(raws), Tail(rnds))

\* the store and the view after one frame carrying the batch raws is handled
BatchFrom(store, dom, raws, rnds) ==
    LET r == HandleFrame(store, dom, Obj([messages |-> Arr(raws)]), now, rnds, "none")
    IN  [messages |-> r.messages, view |-> r.view]

\* C17: a live frame holding the batch e1..en leaves the store and the view
\* as the n single frames e1, ..., en delivered in that order leave them:
\* whenever a frame is handled and the outcome is that of a batch, it is
\* also that of the batch's entries as single frames
C17_BatchEqualsSingles ==
    [][(loginPc = "idle" /\ loginPc' = "idle" /\ messages' # messages)
           => \A b \in SeqsUpTo(wire, MaxBatch) :
                 (/\ randoms' = randoms + NumDraws(b)
                  /\ BatchFrom(messages, view, b, DrawsFrom(b, randoms))
                        = [messages |-> messages', view |-> view'])
                     => SinglesFrom(messages, view, b, DrawsFrom(b, randoms))
                           = [messages |-> messages', view |-> view']]_vars

\* s is an initial part of t
IsPrefix(s, t) == Len(s) <= Len(t) /\ SubSeq(t, 1, Len(s)) = s

\* C18: the store is append-only: whatever the event, a duplicate arrival,
\* a socket close, a reconnect, a send or a failed request, the store's
\* sequence before the step is a prefix of its sequence after it, and so
\* is the view's
C18_AppendOnlyStore ==
    [][IsPrefix(messages, messages') /\ IsPrefix(view, view')]_vars

\* after a duplicate arrival, a close, a reconnect and a send, the store
\* holds the messages in the order of their admission
C18_Witness ==
    /\ Len(messages) = 3
    /\ messages[1].id = Str("m2") /\ messages[2].id = Str("m1") /\ messages[3].id = Str("m3")
    /\ lastRender = "duplicate"
    /\ failures = 0 /\ everOpened /\ connected
    /\ accepted # {}
    /\ lastAlert = "Failed to send message. Please try again."

\* C19: state.connected is true only while state.ws holds a socket that has
\* opened; the step of the close listener that schedules the reconnect
\* also sets it to false, so it is false whenever a reconnect timer is
\* pending and whenever state.ws is null
C19_ConnectedFlag ==
    /\ [](connected => (ws \in DOMAIN sockets /\ sockets[ws] = "open"))
    /\ [](timers # << >> => ~connected)
    /\ [](ws = 0 => ~connected)
    /\ [][Len(timers') > Len(timers) => ~connected']_vars

\* an open channel has closed: the reconnect is pending and the flag is down
C19_Witness ==
    /\ everOpened /\ failures = 1
    /\ timers # << >> /\ ws = 0
    /\ ~connected
    /\ statusText = "Reconnecting..."

\* C20: whatever becomes of the history fetch, a failure, a non-success
\* response or an error while its result is processed, the step that ends
\* it keeps the session and calls connectWebSocket exactly once; a session
\* whose endpoint parses therefore always has exactly one socket or one
\* reconnect timer
C20_HistoryFailureDoesNotBlock ==
    /\ [][(loginPc = "history" /\ loginPc' = "idle")
             => LET c == connectWebSocket(timers, "Connecting...")
                IN  /\ username' = username /\ token' = token /\ wsUrl' = wsUrl
                    /\ ~Falsy(token') /\ chatShown'
                    /\ ws' = c.ws /\ sockets' = c.sockets /\ timers' = c.timers
                    /\ failures' = c.failures /\ wsBackoffMs' = c.wsBackoffMs]_vars
    /\ []((chatShown /\ loginPc = "idle")
             => /\ ~Falsy(token) /\ username = Str(loginUser)
                /\ UrlParses(wsUrl) => Len(sockets) + Len(timers) = 1)

\* rendering the history raised an error, and the first connection attempt
\* is under way
C20_Witness ==
    /\ chatShown /\ loginPc = "idle"
    /\ lastRender = "threw"
    /\ ~everOpened /\ failures = 0
    /\ sockets = <<"connecting">> /\ ws = 1
    /\ ~Falsy(token)

\* an author that is absent, null or the empty string
EmptyAuthor == {Undef, Null, Str("")}

\* C21: every stored message, and the message normalizeMessage produces
\* for every payload received, has a non-empty author: a payload whose
\* author is absent, null or empty gets the author 'unknown'
C21_AuthorNeverEmpty ==
    /\ \A i \in DOMAIN messages : messages[i].userName \notin EmptyAuthor
    /\ \A p \in arrived :
          LET n == normalizeMessage(p, now, randoms + 1)
          IN  n # NotAMessage =>
                  /\ n.userName \notin EmptyAuthor
                  /\ (p.t = "obj" /\ FirstPresent(p, AuthorKeys, Undef) \in EmptyAuthor)
                         => n.userName = Str("unknown")

\* C22: for every record received that carries its own identifier,
\* whichever key carries its body, the normalized id is the record's first
\* present id candidate and the normalized author its first present author
\* candidate, and the body is the record's
C22_FirstCandidatePresent ==
    \A p \in arrived :
        LET n == normalizeMessage(p, now, randoms + 1)
        IN  /\ n # NotAMessage
            /\ n.id = SourceId(p)
            /\ n.userName = FirstPresent(p, AuthorKeys, Str("unknown"))
            /\ n.message = SourceBody(p)

\* a payload without a source identifier, of its own or inside an envelope
NoSourceId(p) ==
    \/ p.t = "str"
    \/ p.t = "obj" /\ ~CarriesId(p) /\ ~CarriesId(Unwrap(p))

\* C23: a payload with no source identifier gets a fresh identifier on each
\* normalization: the store never holds the identifier it is given, so it
\* is admitted as a new entry each time it is delivered, and where the
\* deployment sends such payloads only, no arrival is dropped as a duplicate
C23_IdLessNotDeduplicated ==
    /\ \A p \in wire :
          LET n == normalizeMessage(p, now, randoms + 1)
          IN  (NoSourceId(p) /\ n # NotAMessage) => ~Has(messages, n.id)
    /\ (\A p \in wire : NoSourceId(p)) => lastRender # "duplicate"

\* C24: after the one successful login there is at most one link of the
\* connection chain at a time, a WebSocket that is connecting or open or a
\* pending reconnect timer: two sockets never coexist, a socket and a timer
\* never coexist, and a socket that closes leaves exactly one timer behind
C24_SingleConnectionChain ==
    /\ [](Len(sockets) + Len(timers) <= 1)
    /\ [][Len(sockets') < Len(sockets)
            => /\ Len(timers') = Len(timers) + 1
               /\ Len(sockets') = 0]_vars

\* a socket of the logged-in client has closed and its one reconnect timer
\* is pending
C24_Witness ==
    /\ chatShown /\ ~Falsy(token)
    /\ everOpened
    /\ Len(sockets) = 0 /\ Len(timers) = 1

\* C25: at most one /addMessages request is in flight at any time: while a
\* submission has not completed, neither the send button nor the Enter key
\* starts a second one, so no composed text is in flight twice
C25_OneSendInFlight ==
    /\ Len(requests) <= 1
    /\ \A i, j \in DOMAIN requests : requests[i].content = requests[j].content => i = j

\* C26: whenever handleLogin has ended in its failure branch, leaving the
\* status 'Login failed', state.username, state.token and state.wsUrl are as they
\* were before the call, which is unset, and there is no WebSocket and no
\* reconnect timer, also when the error came after the authentication
C26_ReportedFailureNoSession ==
    (loginPc = "idle" /\ statusText = "Login failed") =>
        /\ username = Null /\ token = Null /\ wsUrl = Null
        /\ sockets = << >> /\ timers = << >>

\* C27: the store and the rendered list agree in every reachable state: the
\* message elements of #messages are, in order, those of the entries of
\* state.messages, renderMessage having added to both or to neither
C27_StoreAndViewAgree ==
    /\ Len(view) = Len(messages)
    /\ \A i \in DOMAIN messages : view[i] = DataId(messages[i].id)

\* two to the power k
RECURSIVE PowerOfTwo(_)
PowerOfTwo(k) == IF k = 0 THEN 1 ELSE 2 * PowerOfTwo(k - 1)

\* C28: state.wsBackoffMs is 500 * 2^k, k being the number of failed attempts
\* and closes since the last 'open' event or since startup, and is not cut
\* at the ceiling; a pending reconnect was scheduled with the delay
\* min(500 * 2^k, 15000), taken after the doubling, so every delay lies
\* between 1000 and 15000 ms
C28_BackoffArithmetic ==
    /\ [](/\ wsBackoffMs = WsFloorMs * PowerOfTwo(failures)
          /\ \A i \in DOMAIN timers :
                /\ timers[i] = Min(WsFloorMs * PowerOfTwo(failures), WsMaxBackoffMs)
                /\ timers[i] >= 2 * WsFloorMs
                /\ timers[i] <= WsMaxBackoffMs)
    /\ [][failures' = failures + 1
            => /\ wsBackoffMs' = 2 * wsBackoffMs
               /\ timers' # << >>
               /\ timers'[Len(timers')] = Min(wsBackoffMs', WsMaxBackoffMs)]_vars

\* after six failures in a row the stored backoff has passed the ceiling
\* while the pending reconnect waits for the ceiling
C28_Witness ==
    /\ failures = MaxFailures
    /\ wsBackoffMs > WsMaxBackoffMs
    /\ timers = <<WsMaxBackoffMs>>

=============================================================================
